---------------------------- MODULE Spec2Model ----------------------------
(***************************************************************************)
(* A model of the slab optimizer of src/app.py: the guillotine packer      *)
(* (can_fit_any_rotation, guillotine_split), the multi-panel assigner      *)
(* (try_combo) run one loop iteration at a time, and the smart-combo       *)
(* search of nest_pieces_guillotine with its worker pool.                  *)
(*                                                                         *)
(* Lengths are integers (the application multiplies metres by 100 and the  *)
(* catalog is given in whole centimetres).  A piece is <<name, w, h>>, a   *)
(* slab <<w, h>>, a free rectangle <<x, y, w, h>>, a layout entry          *)
(* <<name, <<x, y>>, <<w, h>>>> and an entry of results <<<<sw, sh>>,      *)
(* layout>>, as in the source.  A piece's name is its position in the      *)
(* input, so that pieces are told apart.                                   *)
(***************************************************************************)
EXTENDS Integers, Sequences, FiniteSets

\* ------------------------------------------------------------- bounds
\* Side lengths of pieces and slabs are drawn from 1..MaxDim.
MaxDim == 3
\* The piece list of a packing run holds 1..MaxPieces pieces.
MaxPieces == 3
\* The slab list handed to try_combo in a packing run holds 1..MaxSlabs slabs.
MaxSlabs == 2
\* Side lengths, piece count and catalog size of a search run.
SearchMaxDim == 2
SearchMaxPieces == 2
MaxCatalog == 3

\* ------------------------------------------------- program constants
\* try_combo_wrapped hands list(combo) * 5 to try_combo.
ComboRepeat == 5
\* The search enumerates combinations of size 1 .. min(len(sorted_slabs), 5).
MaxComboSize == 5
\* float('inf'): no wastage computed by the program is negative.
Inf == -1

VARIABLES
    required_pieces,  \* the input piece list
    rotation,         \* the rotation flag of the packer's contract; no line of
                      \* app.py takes or reads such a flag
    \* --- try_combo, one loop iteration at a time
    combo,            \* the slab list handed to try_combo
    pc,               \* "start" | "slab" | "piece" | "done" ("off" in a search run)
    pieces,           \* the working piece list
    slab_i,           \* position of the outer loop in combo
    piece_i,          \* position of the inner loop in pieces
    cur_slab,         \* (sw, sh) of the current slab, after the swap
    layout, free_spaces, still_needed,
    results, used_slabs,
    last_split,       \* what the last guillotine_split call on the current slab
                      \* was given and returned
    \* --- the smart-combo search
    available_slabs,  \* the catalog
    spc,              \* "enumerate" | "fold" | "returned" ("off" in a packing run)
    cursor,           \* position of the enumeration in the list of combinations
    futures,          \* submitted combinations, in submission order
    skipped,          \* combinations the area check skipped
    pending,          \* futures as_completed has not yielded yet
    min_wastage, best_result,
    ret               \* the value nest_pieces_guillotine returned

packVars == <<combo, pc, pieces, slab_i, piece_i, cur_slab, layout, free_spaces,
              still_needed, results, used_slabs, last_split>>
searchVars == <<available_slabs, spc, cursor, futures, skipped, pending,
                min_wastage, best_result, ret>>
vars == <<required_pieces, rotation, packVars, searchVars>>

\* ------------------------------------------------------------ helpers
Area(w, h) == w * h

RECURSIVE SumSeq(_)
SumSeq(s) == IF s = <<>> THEN 0 ELSE Head(s) + SumSeq(Tail(s))

RemoveAt(s, i) == SubSeq(s, 1, i - 1) \o SubSeq(s, i + 1, Len(s))

PieceArea(p) == Area(p[2], p[3])
SlabArea(s) == Area(s[1], s[2])

\* One step of a stable descending sort: e goes behind every element whose
\* key is at least its own.
RECURSIVE InsertDesc(_, _)
InsertDesc(sorted, e) ==
    IF sorted = <<>> THEN <<e>>
    ELSE IF PieceArea(Head(sorted)) >= PieceArea(e)
         THEN <<Head(sorted)>> \o InsertDesc(Tail(sorted), e)
         ELSE <<e>> \o sorted

\* sorted(required_pieces, key=lambda x: x[1] * x[2], reverse=True): stable,
\* so pieces of equal area keep their input order.
RECURSIVE sort_required(_)
sort_required(ps) ==
    IF ps = <<>> THEN <<>>
    ELSE InsertDesc(sort_required(SubSeq(ps, 1, Len(ps) - 1)), ps[Len(ps)])

\* ------------------------------------------------------------- packer
\* can_fit_any_rotation trying the swapped orientation first.
can_fit_swapped_first(piece, space) ==
    LET pw == piece[1]
        ph == piece[2]
        sw == space[1]
        sh == space[2]
    IN  IF ph <= sw /\ pw <= sh THEN <<TRUE, <<ph, pw>>>>
        ELSE IF pw <= sw /\ ph <= sh THEN <<TRUE, <<pw, ph>>>>
        ELSE <<FALSE, <<0, 0>>>>

\* for orientation in [(pw, ph), (ph, pw)]: the first that fits, else (False, (0, 0)).
can_fit_any_rotation(piece, space) ==
    LET pw == piece[1]
        ph == piece[2]
        sw == space[1]
        sh == space[2]
    IN  IF pw <= sw /\ ph <= sh THEN <<TRUE, <<pw, ph>>>>
        ELSE IF ph <= sw /\ pw <= sh THEN <<TRUE, <<ph, pw>>>>
        ELSE <<FALSE, <<0, 0>>>>

\* FirstFit scanning the list from its end.
FirstFit_last(free, pw, ph) ==
    LET fitting == {i \in 1..Len(free) :
                      can_fit_any_rotation(<<pw, ph>>, <<free[i][3], free[i][4]>>)[1]}
    IN  IF fitting = {} THEN 0
        ELSE CHOOSE i \in fitting : \A j \in fitting : i >= j

\* The index of the first free rectangle the piece fits, 0 when there is none.
FirstFit(free, pw, ph) ==
    LET fitting == {i \in 1..Len(free) :
                      can_fit_any_rotation(<<pw, ph>>, <<free[i][3], free[i][4]>>)[1]}
    IN  IF fitting = {} THEN 0
        ELSE CHOOSE i \in fitting : \A j \in fitting : i <= j

\* right_strip running the full height of the consumed rectangle.
right_strip_full(f, o) == <<f[1] + o[1], f[2], f[3] - o[1], f[4]>>

\* new_spaces.append((fx + ow, fy, fw - ow, oh)): the strip right of the piece.
right_strip(f, o) == <<f[1] + o[1], f[2], f[3] - o[1], o[2]>>

\* top_strip keeping the height of the consumed rectangle.
top_strip_tall(f, o) == <<f[1], f[2] + o[2], f[3], f[4]>>

\* new_spaces.append((fx, fy + oh, fw, fh - oh)): the strip above the piece.
top_strip(f, o) == <<f[1], f[2] + o[2], f[3], f[4] - o[2]>>

\* if s[2] > 0 and s[3] > 0: free_spaces.append(s)
keep_space(s) == s[3] > 0 /\ s[4] > 0

\* guillotine_split: [ok, pos, dim, free]; ok = FALSE stands for (None, None),
\* and free is the list as the call leaves it.
guillotine_split(free, pw, ph) ==
    LET i == FirstFit(free, pw, ph)
    IN  IF i = 0
        THEN [ok |-> FALSE, pos |-> <<0, 0>>, dim |-> <<0, 0>>, free |-> free]
        ELSE LET f == free[i]
                 orientation == can_fit_any_rotation(<<pw, ph>>, <<f[3], f[4]>>)[2]
                 new_spaces == <<right_strip(f, orientation), top_strip(f, orientation)>>
             IN  [ok |-> TRUE, pos |-> <<f[1], f[2]>>, dim |-> orientation,
                  free |-> RemoveAt(free, i) \o SelectSeq(new_spaces, keep_space)]

\* sw, sh = slab; if sh > sw: sw, sh = sh, sw
normalise(slab) == IF slab[2] > slab[1] THEN <<slab[2], slab[1]>> ELSE slab

\* ------------------------------------------------------------- inputs
Shapes(d) == (1..d) \X (1..d)

\* Piece lists of 1..n pieces with sides in 1..d, each piece named by its position.
PieceLists(d, n) ==
    UNION {{[i \in 1..k |-> <<i, f[i][1], f[i][2]>>] : f \in [1..k -> Shapes(d)]} :
           k \in 1..n}

\* Slab lists of 1..n slabs with sides in 1..d.
SlabLists(d, n) == UNION {[1..k -> Shapes(d)] : k \in 1..n}

NoSplit == [called |-> FALSE]

\* ------------------------------------------- try_combo, step by step
PackIdle ==
    /\ combo = <<>> /\ pc = "off" /\ pieces = <<>> /\ slab_i = 0 /\ piece_i = 0
    /\ cur_slab = <<0, 0>> /\ layout = <<>> /\ free_spaces = <<>>
    /\ still_needed = <<>> /\ results = <<>> /\ used_slabs = <<>>
    /\ last_split = NoSplit

SearchIdle ==
    /\ available_slabs = <<>> /\ spc = "off" /\ cursor = 0 /\ futures = <<>>
    /\ skipped = {} /\ pending = {} /\ min_wastage = Inf /\ best_result = <<>>
    /\ ret = <<>>

\* try_combo(required_pieces, combo) is called.
Init ==
    /\ required_pieces \in PieceLists(MaxDim, MaxPieces)
    /\ rotation \in BOOLEAN
    /\ combo \in SlabLists(MaxDim, MaxSlabs)
    /\ pc = "start"
    /\ pieces = <<>> /\ slab_i = 0 /\ piece_i = 0
    /\ cur_slab = <<0, 0>> /\ layout = <<>> /\ free_spaces = <<>>
    /\ still_needed = <<>> /\ results = <<>> /\ used_slabs = <<>>
    /\ last_split = NoSplit
    /\ SearchIdle

\* results = []; used_slabs = []; pieces = sorted(...)
BeginCombo ==
    /\ pc = "start"
    /\ results' = <<>>
    /\ used_slabs' = <<>>
    /\ pieces' = sort_required(required_pieces)
    /\ slab_i' = 1
    /\ pc' = "slab"
    /\ UNCHANGED <<required_pieces, rotation, combo, piece_i, cur_slab, layout,
                   free_spaces, still_needed, last_split, searchVars>>

\* for slab in combo: the swap, then layout = [], free_spaces = [(0, 0, sw, sh)],
\* still_needed = []
BeginSlab ==
    /\ pc = "slab"
    /\ slab_i <= Len(combo)
    /\ cur_slab' = normalise(combo[slab_i])
    /\ layout' = <<>>
    /\ free_spaces' = << <<0, 0, cur_slab'[1], cur_slab'[2]>> >>
    /\ still_needed' = <<>>
    /\ piece_i' = 1
    /\ last_split' = NoSplit
    /\ pc' = "piece"
    /\ UNCHANGED <<required_pieces, rotation, combo, pieces, slab_i, results,
                   used_slabs, searchVars>>

\* One iteration of "for name, pw, ph in pieces" in which guillotine_split
\* returns a position: layout.append((name, pos, dim)).
PlacePiece ==
    /\ pc = "piece"
    /\ piece_i <= Len(pieces)
    /\ LET p == pieces[piece_i]
           r == guillotine_split(free_spaces, p[2], p[3])
       IN  /\ r.ok
           /\ layout' = Append(layout, <<p[1], r.pos, r.dim>>)
           /\ free_spaces' = r.free
           /\ last_split' = [called |-> TRUE, free |-> free_spaces, pw |-> p[2],
                             ph |-> p[3], res |-> r]
    /\ piece_i' = piece_i + 1
    /\ UNCHANGED <<required_pieces, rotation, combo, pc, pieces, slab_i, cur_slab,
                   still_needed, results, used_slabs, searchVars>>

\* LeavePiece forgetting the piece that did not fit.
LeavePiece_drop ==
    /\ pc = "piece"
    /\ piece_i <= Len(pieces)
    /\ LET p == pieces[piece_i]
           r == guillotine_split(free_spaces, p[2], p[3])
       IN  /\ ~r.ok
           /\ free_spaces' = r.free
           /\ last_split' = [called |-> TRUE, free |-> free_spaces, pw |-> p[2],
                             ph |-> p[3], res |-> r]
    /\ piece_i' = piece_i + 1
    /\ UNCHANGED <<required_pieces, rotation, combo, pc, pieces, slab_i, cur_slab,
                   layout, still_needed, results, used_slabs, searchVars>>

\* One iteration in which guillotine_split returns (None, None):
\* still_needed.append((name, pw, ph)).
LeavePiece ==
    /\ pc = "piece"
    /\ piece_i <= Len(pieces)
    /\ LET p == pieces[piece_i]
           r == guillotine_split(free_spaces, p[2], p[3])
       IN  /\ ~r.ok
           /\ still_needed' = Append(still_needed, p)
           /\ free_spaces' = r.free
           /\ last_split' = [called |-> TRUE, free |-> free_spaces, pw |-> p[2],
                             ph |-> p[3], res |-> r]
    /\ piece_i' = piece_i + 1
    /\ UNCHANGED <<required_pieces, rotation, combo, pc, pieces, slab_i, cur_slab,
                   layout, results, used_slabs, searchVars>>

\* After the inner loop: if layout: results.append(...), used_slabs.append(...);
\* pieces = still_needed; if not pieces: break
EndSlab ==
    /\ pc = "piece"
    /\ piece_i > Len(pieces)
    /\ results' = IF layout /= <<>> THEN Append(results, <<cur_slab, layout>>)
                  ELSE results
    /\ used_slabs' = IF layout /= <<>> THEN Append(used_slabs, cur_slab)
                     ELSE used_slabs
    /\ pieces' = still_needed
    /\ IF still_needed = <<>>
       THEN pc' = "done" /\ slab_i' = slab_i
       ELSE pc' = "slab" /\ slab_i' = slab_i + 1
    /\ UNCHANGED <<required_pieces, rotation, combo, piece_i, cur_slab, layout,
                   free_spaces, still_needed, last_split, searchVars>>

\* The slab list is exhausted: return results, pieces, used_slabs
ReturnCombo ==
    /\ pc = "slab"
    /\ slab_i > Len(combo)
    /\ pc' = "done"
    /\ UNCHANGED <<required_pieces, rotation, combo, pieces, slab_i, piece_i,
                   cur_slab, layout, free_spaces, still_needed, results,
                   used_slabs, last_split, searchVars>>

Next ==
    \/ BeginCombo
    \/ BeginSlab
    \/ PlacePiece
    \/ LeavePiece
    \/ EndSlab
    \/ ReturnCombo

Spec == Init /\ [][Next]_vars

\* ------------------------------------------- try_combo as a function
\* What one iteration of the inner loop of try_combo makes of [free, layout,
\* still], r being what guillotine_split returned for piece p.
after_split(st, p, r) ==
    IF r.ok
    THEN [free |-> r.free, layout |-> Append(st.layout, <<p[1], r.pos, r.dim>>),
          still |-> st.still]
    ELSE [free |-> r.free, layout |-> st.layout, still |-> Append(st.still, p)]

\* One iteration of "for name, pw, ph in pieces".
fill_step(st, p) == after_split(st, p, guillotine_split(st.free, p[2], p[3]))

\* The inner loop of try_combo over pieces[i..].
RECURSIVE fill_slab(_, _, _)
fill_slab(ps, i, st) ==
    IF i > Len(ps) THEN st ELSE fill_slab(ps, i + 1, fill_step(st, ps[i]))

\* layout = []; free_spaces = [(0, 0, sw, sh)]; still_needed = []
fresh_slab(slab) ==
    [free |-> << <<0, 0, slab[1], slab[2]>> >>, layout |-> <<>>, still |-> <<>>]

\* What one iteration of the outer loop makes of [results, leftovers, used],
\* f being what the inner loop left for slab (sw, sh).
after_fill(a, slab, f) ==
    [results |-> IF f.layout /= <<>> THEN Append(a.results, <<slab, f.layout>>)
                 ELSE a.results,
     leftovers |-> f.still,
     used |-> IF f.layout /= <<>> THEN Append(a.used, slab) ELSE a.used]

\* One iteration of "for slab in combo".
slab_step(a, slab) == after_fill(a, slab, fill_slab(a.leftovers, 1, fresh_slab(slab)))

\* The outer loop of try_combo over the slabs left.
RECURSIVE assign(_, _)

\* if not pieces: break
assign_rest(a, slabs) == IF a.leftovers = <<>> THEN a ELSE assign(a, slabs)

assign(a, slabs) ==
    IF slabs = <<>> THEN a
    ELSE assign_rest(slab_step(a, normalise(Head(slabs))), Tail(slabs))

\* try_combo(required_pieces, combo): [results, leftovers, used].
try_combo(required, slabs) ==
    assign([results |-> <<>>, leftovers |-> sort_required(required), used |-> <<>>],
           slabs)

\* ------------------------------------------------- the smart-combo search
\* sorted(slabs, key=lambda x: x[0] * x[1]): stable and ascending.
RECURSIVE InsertAsc(_, _)
InsertAsc(sorted, e) ==
    IF sorted = <<>> THEN <<e>>
    ELSE IF SlabArea(Head(sorted)) <= SlabArea(e)
         THEN <<Head(sorted)>> \o InsertAsc(Tail(sorted), e)
         ELSE <<e>> \o sorted

RECURSIVE sort_slabs(_)
sort_slabs(slabs) ==
    IF slabs = <<>> THEN <<>>
    ELSE InsertAsc(sort_slabs(SubSeq(slabs, 1, Len(slabs) - 1)), slabs[Len(slabs)])

\* required_area = sum(w * h for _, w, h in required_pieces)
required_area(required) ==
    SumSeq([i \in 1..Len(required) |-> PieceArea(required[i])])

\* sum(w * h for w, h in slabs)
slabs_area(slabs) == SumSeq([i \in 1..Len(slabs) |-> SlabArea(slabs[i])])

\* itertools.combinations over positions lo..n taken r at a time, in the order
\* itertools yields them (lexicographic in the positions).
RECURSIVE CombinationsFrom(_, _, _)
CombinationsFrom(lo, n, r) ==
    IF r = 0 THEN << <<>> >>
    ELSE IF lo > n THEN <<>>
    ELSE LET rest == CombinationsFrom(lo + 1, n, r - 1)
         IN  [k \in 1..Len(rest) |-> <<lo>> \o rest[k]]
             \o CombinationsFrom(lo + 1, n, r)

Min(a, b) == IF a <= b THEN a ELSE b

\* for r in range(1, min(len(sorted_slabs), 5) + 1):
\*     for combo in combinations(sorted_slabs, r):
\* every combination, as positions in sorted_slabs, in enumeration order.
RECURSIVE EnumerationFrom(_, _)
EnumerationFrom(r, n) ==
    IF r > Min(n, MaxComboSize) THEN <<>>
    ELSE CombinationsFrom(1, n, r) \o EnumerationFrom(r + 1, n)

Enumeration == EnumerationFrom(1, Len(available_slabs))

\* The combination at a position of the enumeration, as a tuple of slabs.
ComboAt(c) ==
    LET sorted_slabs == sort_slabs(available_slabs)
        idx == Enumeration[c]
    IN  [k \in 1..Len(idx) |-> sorted_slabs[idx[k]]]

\* list(combo) * n
RECURSIVE Repeat(_, _)
Repeat(c, n) == IF n = 0 THEN <<>> ELSE c \o Repeat(c, n - 1)

\* a < b for wastages, Inf standing for float('inf').
Less(a, b) == a /= Inf /\ (b = Inf \/ a < b)

\* What try_combo_wrapped makes of try_combo's result r: <<wastage, result>>,
\* result <<>> standing for None and <<r>> for (results, leftovers, used).
wrapped(r) ==
    IF r.leftovers = <<>>
    THEN <<slabs_area(r.used) - required_area(required_pieces), <<r>>>>
    ELSE <<Inf, <<>>>>

\* combo_list = list(combo) * 5; try_combo(required_pieces, combo_list)
try_combo_wrapped(c) == wrapped(try_combo(required_pieces, Repeat(c, ComboRepeat)))

\* nest_pieces_guillotine(required_pieces, available_slabs) is called with
\* use_smart_combo and without granite_mode.
SearchInit ==
    /\ required_pieces \in PieceLists(SearchMaxDim, SearchMaxPieces)
    /\ available_slabs \in SlabLists(SearchMaxDim, MaxCatalog)
    /\ rotation = TRUE
    /\ spc = "enumerate"
    /\ cursor = 1
    /\ futures = <<>>
    /\ skipped = {}
    /\ pending = {}
    /\ min_wastage = Inf
    /\ best_result = <<>>
    /\ ret = <<>>
    /\ PackIdle

\* if slab_area < required_area: continue
SkipCombo ==
    /\ spc = "enumerate"
    /\ cursor <= Len(Enumeration)
    /\ slabs_area(ComboAt(cursor)) < required_area(required_pieces)
    /\ skipped' = skipped \cup {cursor}
    /\ cursor' = cursor + 1
    /\ UNCHANGED <<required_pieces, rotation, packVars, available_slabs, spc,
                   futures, pending, min_wastage, best_result, ret>>

\* futures.append(executor.submit(try_combo_wrapped, combo))
SubmitCombo ==
    /\ spc = "enumerate"
    /\ cursor <= Len(Enumeration)
    /\ ~(slabs_area(ComboAt(cursor)) < required_area(required_pieces))
    /\ futures' = Append(futures, ComboAt(cursor))
    /\ cursor' = cursor + 1
    /\ UNCHANGED <<required_pieces, rotation, packVars, available_slabs, spc,
                   skipped, pending, min_wastage, best_result, ret>>

\* The enumeration is over: for future in as_completed(futures) begins.
AwaitFutures ==
    /\ spc = "enumerate"
    /\ cursor > Len(Enumeration)
    /\ pending' = 1..Len(futures)
    /\ spc' = "fold"
    /\ UNCHANGED <<required_pieces, rotation, packVars, available_slabs, cursor,
                   futures, skipped, min_wastage, best_result, ret>>

\* if result and wastage < min_wastage
improves(outcome, min) == outcome[2] /= <<>> /\ Less(outcome[1], min)

\* as_completed yields some future not yielded yet (the workers finish in any
\* order), and it improves on the best so far.
FoldBetter ==
    /\ spc = "fold"
    /\ \E f \in pending :
        LET outcome == try_combo_wrapped(futures[f])
        IN  /\ improves(outcome, min_wastage)
            /\ min_wastage' = outcome[1]
            /\ best_result' = outcome[2]
            /\ pending' = pending \ {f}
    /\ UNCHANGED <<required_pieces, rotation, packVars, available_slabs, spc,
                   cursor, futures, skipped, ret>>

\* as_completed yields some future that does not improve on the best so far.
FoldOther ==
    /\ spc = "fold"
    /\ \E f \in pending :
        /\ ~improves(try_combo_wrapped(futures[f]), min_wastage)
        /\ pending' = pending \ {f}
    /\ UNCHANGED <<required_pieces, rotation, packVars, available_slabs, spc,
                   cursor, futures, skipped, min_wastage, best_result, ret>>

\* return best_result if best_result else ([], required_pieces, [])
Return ==
    /\ spc = "fold"
    /\ pending = {}
    /\ ret' = IF best_result /= <<>> THEN best_result
              ELSE << [results |-> <<>>, leftovers |-> required_pieces,
                       used |-> <<>>] >>
    /\ spc' = "returned"
    /\ UNCHANGED <<required_pieces, rotation, packVars, available_slabs, cursor,
                   futures, skipped, pending, min_wastage, best_result>>

SearchNext ==
    \/ SkipCombo
    \/ SubmitCombo
    \/ AwaitFutures
    \/ FoldBetter
    \/ FoldOther
    \/ Return

SearchSpec == SearchInit /\ [][SearchNext]_vars

\* ------------------------------------------- properties of the packer
\* A layout entry <<name, <<x, y>>, <<w, h>>>> as a rectangle.
PX(e) == e[2][1]
PY(e) == e[2][2]
PW(e) == e[3][1]
PH(e) == e[3][2]

\* The layouts of the used panels recorded so far, and the one being filled.
AllLayouts == {results[k][2] : k \in 1..Len(results)} \cup {layout}

\* C1 (no-overlap): in every used panel of the result, and in the panel being
\* filled after any number of successful guillotine_split calls, any two
\* distinct placements have disjoint interiors.
NoOverlap ==
    LET InteriorsDisjoint(a, b) ==
            \/ PX(a) + PW(a) <= PX(b)
            \/ PX(b) + PW(b) <= PX(a)
            \/ PY(a) + PH(a) <= PY(b)
            \/ PY(b) + PH(b) <= PY(a)
    IN  \A lay \in AllLayouts :
            \A i, j \in 1..Len(lay) : i < j => InteriorsDisjoint(lay[i], lay[j])

\* try_combo has returned a panel that holds three placements.
NoOverlapWitness ==
    /\ pc = "done"
    /\ \E k \in 1..Len(results) : Len(results[k][2]) >= 3

\* C2 (in-bounds): every placement recorded for a used panel lies inside the
\* panel size recorded with it: x >= 0, y >= 0, x + w <= panelWidth and
\* y + h <= panelHeight, (w, h) the placed size.
InBounds ==
    \A k \in 1..Len(results) :
        \A i \in 1..Len(results[k][2]) :
            LET e == results[k][2][i]
            IN  /\ PX(e) >= 0
                /\ PY(e) >= 0
                /\ PX(e) + PW(e) <= results[k][1][1]
                /\ PY(e) + PH(e) <= results[k][1][2]

\* A used panel whose slab was given taller than wide (so it was swapped) holds
\* a placement away from the origin that reaches the panel's far edge.
InBoundsWitness ==
    /\ pc = "done"
    /\ \E k \in 1..Len(results) :
        /\ \A c \in 1..Len(combo) : combo[c] /= results[k][1]
        /\ \E i \in 1..Len(results[k][2]) :
            LET e == results[k][2][i]
            IN  PX(e) > 0 /\ PX(e) + PW(e) = results[k][1][1]

\* The placements of all used panels, as one sequence.
RECURSIVE Flatten(_)
Flatten(rs) == IF rs = <<>> THEN <<>> ELSE Head(rs)[2] \o Flatten(Tail(rs))

\* C3 (conservation): when try_combo has returned, every input piece occurs
\* exactly once in the placements of the used panels together with the
\* leftover list, nothing else occurs there, and the placed area plus the
\* leftover area is the input area.
Conservation ==
    pc = "done" =>
        LET placed == Flatten(results)
        IN  /\ \A i \in 1..Len(required_pieces) :
                 LET p == required_pieces[i]
                     asPlaced == {k \in 1..Len(placed) :
                                    /\ placed[k][1] = p[1]
                                    /\ PW(placed[k]) * PH(placed[k]) = PieceArea(p)}
                     asLeft == {k \in 1..Len(pieces) : pieces[k] = p}
                 IN  Cardinality(asPlaced) + Cardinality(asLeft) = 1
            /\ Len(placed) + Len(pieces) = Len(required_pieces)
            /\ SumSeq([i \in 1..Len(placed) |-> PW(placed[i]) * PH(placed[i])])
                 + SumSeq([i \in 1..Len(pieces) |-> PieceArea(pieces[i])])
               = SumSeq([i \in 1..Len(required_pieces) |->
                           PieceArea(required_pieces[i])])

\* try_combo has returned with pieces on two panels and a piece left over.
ConservationWitness ==
    /\ pc = "done"
    /\ Len(results) >= 2
    /\ pieces /= <<>>

\* The placements made so far: recorded panels and the panel being filled.
AllPlacements == UNION {{lay[i] : i \in 1..Len(lay)} : lay \in AllLayouts}

FirstFitStep ==
    last_split.called =>
        LET F == last_split.free
            pw == last_split.pw
            ph == last_split.ph
            r == last_split.res
            fitsU(f) == pw <= f[3] /\ ph <= f[4]
            fitsR(f) == ph <= f[3] /\ pw <= f[4]
            fits(f) == fitsU(f) \/ fitsR(f)
        IN  /\ free_spaces = r.free
            /\ IF \A i \in 1..Len(F) : ~fits(F[i])
               THEN ~r.ok /\ r.free = F
               ELSE \E i \in 1..Len(F) :
                      /\ fits(F[i])
                      /\ \A j \in 1..(i - 1) : ~fits(F[j])
                      /\ r.ok
                      /\ r.pos = <<F[i][1], F[i][2]>>
                      /\ r.dim = IF fitsU(F[i]) THEN <<pw, ph>> ELSE <<ph, pw>>
                      /\ LET ow == r.dim[1]
                             oh == r.dim[2]
                             right == IF F[i][3] - ow > 0 /\ oh > 0
                                      THEN << <<F[i][1] + ow, F[i][2], F[i][3] - ow, oh>> >>
                                      ELSE <<>>
                             top == IF F[i][3] > 0 /\ F[i][4] - oh > 0
                                    THEN << <<F[i][1], F[i][2] + oh, F[i][3], F[i][4] - oh>> >>
                                    ELSE <<>>
                         IN  r.free = [k \in 1..(Len(F) - 1) |->
                                         IF k < i THEN F[k] ELSE F[k + 1]]
                                      \o right \o top

\* A call placed the piece rotated, in a rectangle that is not the first of
\* the list, and left a strip behind.
FirstFitWitness ==
    /\ last_split.called
    /\ last_split.res.ok
    /\ last_split.res.dim /= <<last_split.pw, last_split.ph>>
    /\ last_split.res.pos /= <<last_split.free[1][1], last_split.free[1][2]>>
    /\ Len(last_split.res.free) >= Len(last_split.free)

\* ------------------------------------------- properties of the search
\* The outcome of every submitted future, in submission order.
Outcomes == [f \in 1..Len(futures) |-> try_combo_wrapped(futures[f])]

\* The loop "for future in as_completed(futures)" run over the futures in
\* submission order, from future i on: the best result it ends with.
RECURSIVE fold_in_order(_, _, _)
fold_in_order(i, min, best) ==
    IF i > Len(futures) THEN best
    ELSE IF improves(Outcomes[i], min)
         THEN fold_in_order(i + 1, Outcomes[i][1], Outcomes[i][2])
         ELSE fold_in_order(i + 1, min, best)

\* C4 (deterministic selection under concurrency): the value the search
\* returns does not depend on the order in which the workers complete: it is
\* the value the fold yields when the futures complete in submission order.
CompletionOrderIndependent ==
    spc = "returned" =>
        LET best == fold_in_order(1, Inf, <<>>)
        IN  ret = IF best /= <<>> THEN best
                  ELSE << [results |-> <<>>, leftovers |-> required_pieces,
                           used |-> <<>>] >>

\* Total waste of a result: the area of its used panels less the placed area.
Waste(r) ==
    slabs_area([k \in 1..Len(r.results) |-> r.results[k][1]])
    - SumSeq([i \in 1..Len(Flatten(r.results)) |->
                PW(Flatten(r.results)[i]) * PH(Flatten(r.results)[i])])

\* C5 (tie-break order): the returned result is a minimum, among the feasible
\* evaluated combinations, of (total waste, panels used, used-panel area).
TieBreakOrder ==
    LET Score(r) == <<Waste(r), Len(r.used), slabs_area(r.used)>>
        LexLeq(a, b) ==
            \/ a[1] < b[1]
            \/ a[1] = b[1] /\ a[2] < b[2]
            \/ a[1] = b[1] /\ a[2] = b[2] /\ a[3] <= b[3]
    IN  spc = "returned" =>
            \A f \in 1..Len(futures) :
                Outcomes[f][2] /= <<>> =>
                    /\ ret[1].leftovers = <<>>
                    /\ LexLeq(Score(ret[1]), Score(Outcomes[f][2][1]))

\* C6 (pre-filter soundness): a combination the area check skipped would
\* leave a piece over if it were evaluated as admitted combinations are, on
\* list(combo) * 5.
PrefilterSound ==
    \A c \in skipped :
        try_combo(required_pieces, Repeat(ComboAt(c), ComboRepeat)).leftovers /= <<>>

\* C7 (enumeration completeness): whenever some multiset of at most
\* (number of pieces) catalog panels lets the assigner place every piece, the
\* search returns a result with no leftover.
EnumerationComplete ==
    LET \* every list of 1..n catalog slabs, repetition allowed
        CatalogLists(n) ==
            UNION {{[i \in 1..k |-> available_slabs[f[i]]] :
                      f \in [1..k -> 1..Len(available_slabs)]} : k \in 1..n}
    IN  spc = "returned" =>
            ((\E m \in CatalogLists(Len(required_pieces)) :
                 try_combo(required_pieces, m).leftovers = <<>>)
             => ret[1].leftovers = <<>>)

\* C9 (globally unplaceable pieces): the returned leftover list holds every
\* piece that fits no catalog panel, and when there is such a piece no piece
\* that does fit some catalog panel is in it.
UnplaceableReported ==
    spc = "returned" =>
        LET \* the piece fits some catalog panel in some orientation
            FitsSomePanel(p) ==
                \E i \in 1..Len(available_slabs) :
                    can_fit_any_rotation(<<p[2], p[3]>>,
                                         normalise(available_slabs[i]))[1]
            InSeq(x, sq) == \E i \in 1..Len(sq) : sq[i] = x
            tooLarge == {i \in 1..Len(required_pieces) :
                           ~FitsSomePanel(required_pieces[i])}
        IN  /\ \A i \in tooLarge : InSeq(required_pieces[i], ret[1].leftovers)
            /\ tooLarge /= {} =>
                 \A i \in 1..Len(required_pieces) :
                    FitsSomePanel(required_pieces[i]) =>
                        ~InSeq(required_pieces[i], ret[1].leftovers)

=============================================================================
